---- MODULE Spec2Model ----
(***************************************************************************)
(* A model of the Orion embedded vector database engine                    *)
(* (src/src/database.cpp, class Database::Impl): the primary store, the    *)
(* metadata inverted index and the HNSW graph index, the operations add,   *)
(* remove, get, count and both query overloads, the capacity rebuild, and  *)
(* save/load on the files <path>, <path>.hnsw, <path>.tmp and              *)
(* <path>.tmp_hnsw.                                                        *)
(***************************************************************************)
EXTENDS Integers, Sequences, FiniteSets, TLC

VARIABLES
    storage,         \* Impl::storage: VectorId -> VectorData
    metadata_index,  \* Impl::metadata_index: key -> (value -> set of VectorId)
    hnsw_index,      \* *Impl::hnsw_index: the graph index in use
    config,          \* Impl::config
    index_mutex,     \* Impl::index_mutex: "free" or "held"
    disk,            \* the files at db_path and beside it
    alive,           \* the process holding the handle is running
    last,            \* the last call: its arguments and what it returned
    added,           \* ids added by an add that returned true, not removed since
    hist,            \* whether the calls so far were adds of distinct ids only
    steps,           \* number of calls made (counted in DiskSpec only)
    threads,         \* per thread: where it is in the call it makes (ThreadSpec)
    written          \* per id: what the last write that returned left (ThreadSpec)

vars == <<storage, metadata_index, hnsw_index, config, index_mutex, disk,
          alive, last, added, hist, steps, threads, written>>

-----------------------------------------------------------------------------
(* Bounds of the model *)

MaxId == 2
InitCap == 1
MaxK == 2
MaxSteps == 4
NThreads == 2

(* Program constants *)

GrowthFactor == 2
GrowthSlack == 10
FormatVersion == 1

-----------------------------------------------------------------------------
(* Input domains *)

Ids == 1..MaxId
Coords == {0, 1}
\* the Config handed to create
CreateConfig == [vector_dim |-> 1, max_elements |-> InitCap]
Vectors == [1..CreateConfig.vector_dim -> Coords]
\* vectors whose length is not the database dimension: shorter, longer
BadVectors == {<<>>, [i \in 1..(CreateConfig.vector_dim + 1) |-> 0]}
\* the query vectors the query actions draw from
QueryVectors == {[i \in 1..CreateConfig.vector_dim |-> 0]}
\* the metadata keys, in the order std::map<std::string, ...> iterates them
KeyOrder == <<"c", "t">>
Keys == {KeyOrder[i] : i \in 1..Len(KeyOrder)}

\* MetadataValue = std::variant<int64_t, double, std::string>: the
\* alternative held and the value; 1 (int64) and 1.0 (double) are different.
I64(n) == <<"int64", n>>
F64(n) == <<"double", n>>
Str(s) == <<"string", s>>
ValuesOf(k) == IF k = "c" THEN {I64(1), F64(1)} ELSE {Str("a")}
\* the values, in the order of std::variant's operator<: by alternative, then by value
ValueOrder == <<I64(1), F64(1), Str("a")>>
AllValues == {ValueOrder[i] : i \in 1..Len(ValueOrder)}
\* the filters: any value under any key
Filters == UNION {[K -> AllValues] : K \in SUBSET Keys}
\* Metadata = std::map<std::string, MetadataValue>
Metadatas ==
    UNION {{m \in [K -> AllValues] : \A k \in K : m[k] \in ValuesOf(k)} : K \in SUBSET Keys}

-----------------------------------------------------------------------------
(* Finite maps *)

Put(f, k, v) == [x \in DOMAIN f \cup {k} |-> IF x = k THEN v ELSE f[x]]
Erase(f, k) == [x \in DOMAIN f \ {k} |-> f[x]]
Max(a, b) == IF a >= b THEN a ELSE b
Min(a, b) == IF a <= b THEN a ELSE b

-----------------------------------------------------------------------------
(* GraphIndex: hnswlib::HierarchicalNSW<float>, by its contract.  A graph  *)
(* holds max_elements and its points: label -> [vec, deleted].  A label    *)
(* marked deleted keeps its slot.                                          *)

NewIndex(max_elements) == [max_elements |-> max_elements, points |-> <<>>]

\* markDelete throws for an unknown or an already deleted label
markDeleteThrows(g, label) ==
    \/ label \notin DOMAIN g.points
    \/ g.points[label].deleted

\* the callers swallow the exception: the graph is then as before
markDelete(g, label) ==
    IF markDeleteThrows(g, label) THEN g
    ELSE [g EXCEPT !.points[label].deleted = TRUE]

\* addPoint throws when the label is new and every slot is taken
addPointThrows(g, label) ==
    /\ label \notin DOMAIN g.points
    /\ Cardinality(DOMAIN g.points) >= g.max_elements

\* a known label is updated in place (and no longer deleted)
addPoint(g, vec, label) ==
    [g EXCEPT !.points = Put(g.points, label, [vec |-> vec, deleted |-> FALSE])]

RECURSIVE SumSq(_, _, _)
SumSq(a, b, i) ==
    IF i > Len(a) THEN 0
    ELSE (a[i] - b[i]) * (a[i] - b[i]) + SumSq(a, b, i + 1)

\* L2Space: squared Euclidean distance
L2Sqr(a, b) == SumSq(a, b, 1)

\* the labels a search may return: not deleted and accepted by the filter
Eligible(g, allowed) ==
    {l \in DOMAIN g.points : ~g.points[l].deleted /\ l \in allowed}

\* searchKnn: the priority queues a search may return, each as the
\* sequence of <<distance, label>> its top()/pop() give, farthest first:
\* the min(k, #eligible) nearest eligible labels, ties in any order
searchKnn(g, q, k, allowed) ==
    LET el == Eligible(g, allowed)
        n == Min(k, Cardinality(el))
        d(l) == L2Sqr(q, g.points[l].vec)
        picks == {s \in [1..n -> el] :
                    /\ \A i, j \in 1..n : i < j => s[i] # s[j] /\ d(s[i]) >= d(s[j])
                    /\ \A l \in el : (\A i \in 1..n : s[i] # l) =>
                                         \A i \in 1..n : d(s[i]) <= d(l)}
    IN {[i \in 1..n |-> <<d(s[i]), s[i]>>] : s \in picks}

-----------------------------------------------------------------------------
(* Database::Impl *)

\* one iteration of the loop of remove_from_metadata_index
RemovePosting(idx, key, value, id) ==
    IF key \notin DOMAIN idx THEN idx
    ELSE LET inner == idx[key]
             inner2 ==
                 IF value \notin DOMAIN inner THEN inner
                 ELSE IF inner[value] \ {id} = {} THEN Erase(inner, value)
                 ELSE [inner EXCEPT ![value] = @ \ {id}]
         IN IF DOMAIN inner2 = {} THEN Erase(idx, key)
            ELSE [idx EXCEPT ![key] = inner2]

RECURSIVE RemovePostings(_, _, _, _)
RemovePostings(idx, meta, keys, id) ==
    IF keys = {} THEN idx
    ELSE LET key == CHOOSE k \in keys : TRUE
         IN RemovePostings(RemovePosting(idx, key, meta[key], id), meta,
                           keys \ {key}, id)

\* mutant: the old postings stay
remove_from_metadata_index_stale(st, idx, id) == idx

remove_from_metadata_index(st, idx, id) ==
    IF id \notin DOMAIN st THEN idx
    ELSE RemovePostings(idx, st[id].metadata, DOMAIN st[id].metadata, id)

\* metadata_index[key][value].insert(id)
InsertPosting(idx, key, value, id) ==
    LET inner == IF key \in DOMAIN idx THEN idx[key] ELSE <<>>
        ids == IF value \in DOMAIN inner THEN inner[value] ELSE {}
    IN Put(idx, key, Put(inner, value, ids \cup {id}))

RECURSIVE InsertPostings(_, _, _, _)
InsertPostings(idx, meta, keys, id) ==
    IF keys = {} THEN idx
    ELSE LET key == CHOOSE k \in keys : TRUE
         IN InsertPostings(InsertPosting(idx, key, meta[key], id), meta,
                           keys \ {key}, id)

\* the loop of rebuild_index: addPoint for every entry of storage, by id
RECURSIVE AddAll(_, _, _)
AddAll(r, st, ids) ==
    IF ids = {} \/ ~r.ok THEN r
    ELSE LET id == CHOOSE i \in ids : \A j \in ids : i <= j
         IN IF addPointThrows(r.g, id) THEN [ok |-> FALSE, g |-> r.g]
            ELSE AddAll([ok |-> TRUE, g |-> addPoint(r.g, st[id].vector, id)],
                        st, ids \ {id})

\* mutant: the new index keeps the old capacity
rebuild_index_samecap(st, g, cfg, new_max_elements, allocOk) ==
    LET r == AddAll([ok |-> allocOk, g |-> NewIndex(cfg.max_elements)], st, DOMAIN st)
    IN IF r.ok
       THEN [ok |-> TRUE, g |-> r.g, config |-> cfg]
       ELSE [ok |-> FALSE, g |-> g, config |-> cfg]

\* mutant: the new index is built and dropped, the old one stays in place
rebuild_index_dropped(st, g, cfg, new_max_elements, allocOk) ==
    LET r == AddAll([ok |-> allocOk, g |-> NewIndex(new_max_elements)], st, DOMAIN st)
    IN IF r.ok
       THEN [ok |-> TRUE, g |-> g,
             config |-> [cfg EXCEPT !.max_elements = new_max_elements]]
       ELSE [ok |-> FALSE, g |-> g, config |-> cfg]

\* mutant: the new index starts from the labels of the old one
rebuild_index_carrying(st, g, cfg, new_max_elements, allocOk) ==
    LET r == AddAll([ok |-> allocOk,
                     g |-> [max_elements |-> new_max_elements, points |-> g.points]],
                    st, DOMAIN st)
    IN IF r.ok
       THEN [ok |-> TRUE, g |-> r.g,
             config |-> [cfg EXCEPT !.max_elements = new_max_elements]]
       ELSE [ok |-> FALSE, g |-> g, config |-> cfg]

\* mutant: a rebuild that fails has already put the new, empty index and
\* the new capacity in place
rebuild_index_swapfirst(st, g, cfg, new_max_elements, allocOk) ==
    LET r == AddAll([ok |-> allocOk, g |-> NewIndex(new_max_elements)], st, DOMAIN st)
    IN IF r.ok
       THEN [ok |-> TRUE, g |-> r.g,
             config |-> [cfg EXCEPT !.max_elements = new_max_elements]]
       ELSE [ok |-> FALSE, g |-> NewIndex(new_max_elements),
             config |-> [cfg EXCEPT !.max_elements = new_max_elements]]

\* rebuild_index: allocOk is whether new HierarchicalNSW(...) got its memory
rebuild_index(st, g, cfg, new_max_elements, allocOk) ==
    LET r == AddAll([ok |-> allocOk, g |-> NewIndex(new_max_elements)], st, DOMAIN st)
    IN IF r.ok
       THEN [ok |-> TRUE, g |-> r.g,
             config |-> [cfg EXCEPT !.max_elements = new_max_elements]]
       ELSE [ok |-> FALSE, g |-> g, config |-> cfg]

\* the state of an Impl, as the operations below take and return it
Impl == [storage |-> storage, metadata_index |-> metadata_index,
         hnsw_index |-> hnsw_index, config |-> config]

Ret(ret, why, st, idx, g, cfg) ==
    [ret |-> ret, why |-> why, storage |-> st, metadata_index |-> idx,
     hnsw_index |-> g, config |-> cfg]

\* mutant: only a vector that is too short is refused
dimension_mismatch_short(vec, cfg) == Len(vec) < cfg.vector_dim

\* the test add makes before it takes the lock
dimension_mismatch(vec, cfg) == Len(vec) # cfg.vector_dim

\* mutant: the graph is rebuilt on every add, full or not
add_rebuilding(e, id, vec, meta, allocOk) ==
    IF dimension_mismatch(vec, e.config)
    THEN Ret(FALSE, "dimension", e.storage, e.metadata_index, e.hnsw_index, e.config)
    ELSE
    LET st1 == Put(e.storage, id, [vector |-> vec, metadata |-> meta])
        idx2 == InsertPostings(remove_from_metadata_index(e.storage, e.metadata_index, id),
                               meta, DOMAIN meta, id)
        proposed == Max(e.config.max_elements * GrowthFactor,
                        Cardinality(DOMAIN st1) + GrowthSlack)
        rb == rebuild_index(st1, e.hnsw_index, e.config, proposed, TRUE)
    IN Ret(TRUE, "rebuilt", st1, idx2, addPoint(rb.g, vec, id), rb.config)

\* add
add(e, id, vec, meta, allocOk) ==
    IF dimension_mismatch(vec, e.config)
    THEN Ret(FALSE, "dimension", e.storage, e.metadata_index, e.hnsw_index, e.config)
    ELSE
    LET exists == id \in DOMAIN e.storage
        idx1 == IF exists
                THEN remove_from_metadata_index(e.storage, e.metadata_index, id)
                ELSE e.metadata_index
        g1 == IF exists THEN markDelete(e.hnsw_index, id) ELSE e.hnsw_index
        st1 == Put(e.storage, id, [vector |-> vec, metadata |-> meta])
        idx2 == InsertPostings(idx1, meta, DOMAIN meta, id)
    IN IF ~addPointThrows(g1, id)
       THEN Ret(TRUE, "ok", st1, idx2, addPoint(g1, vec, id), e.config)
       ELSE LET proposed == Max(e.config.max_elements * GrowthFactor,
                                Cardinality(DOMAIN st1) + GrowthSlack)
                rb == rebuild_index(st1, g1, e.config, proposed, allocOk)
            IN IF ~rb.ok
               THEN Ret(FALSE, "rebuild", st1, idx1, rb.g, rb.config)
               ELSE IF addPointThrows(rb.g, id)
               THEN Ret(FALSE, "retry", st1, idx1, rb.g, rb.config)
               ELSE Ret(TRUE, "rebuilt", st1, idx2, addPoint(rb.g, vec, id), rb.config)

\* mutant: an id that is not stored has its label marked deleted and true
\* is returned
remove_anyway(e, id) ==
    Ret(TRUE, "ok", Erase(e.storage, id),
        remove_from_metadata_index(e.storage, e.metadata_index, id),
        markDelete(e.hnsw_index, id), e.config)

\* mutant: the record is left in storage and in the graph
remove_keep(e, id) ==
    IF id \notin DOMAIN e.storage
    THEN Ret(FALSE, "unknown", e.storage, e.metadata_index, e.hnsw_index, e.config)
    ELSE Ret(TRUE, "ok", e.storage,
             remove_from_metadata_index(e.storage, e.metadata_index, id),
             e.hnsw_index, e.config)

\* remove
remove(e, id) ==
    IF id \notin DOMAIN e.storage
    THEN Ret(FALSE, "unknown", e.storage, e.metadata_index, e.hnsw_index, e.config)
    ELSE Ret(TRUE, "ok", Erase(e.storage, id),
             remove_from_metadata_index(e.storage, e.metadata_index, id),
             markDelete(e.hnsw_index, id), e.config)

\* mutant: nothing is found
get_nothing(e, id) == <<>>

\* get: <<>> for std::nullopt, else <<pair>>
get(e, id) ==
    IF id \in DOMAIN e.storage
    THEN << <<e.storage[id].vector, e.storage[id].metadata>> >>
    ELSE <<>>

\* count
count(e) == Cardinality(DOMAIN e.storage)

\* the loop that empties result_queue into results, and std::reverse
Results(result_queue) ==
    [i \in 1..Len(result_queue) |->
        [id |-> result_queue[Len(result_queue) + 1 - i][2],
         distance |-> result_queue[Len(result_queue) + 1 - i][1]]]

\* query(query_vec, n): the results it may return
query(e, query_vec, n) ==
    IF Len(query_vec) # e.config.vector_dim \/ DOMAIN e.storage = {}
    THEN {<<>>}
    ELSE {Results(pq) :
            pq \in searchKnn(e.hnsw_index, query_vec, n, DOMAIN e.hnsw_index.points)}

\* the loop of query(query_vec, n, filter) over the filter's clauses: the
\* candidate ids left when it ends or returns early ({} on an early return)
RECURSIVE FilterLoop(_, _, _, _, _)
FilterLoop(idx, filter, keys, first_filter_clause, candidate_ids) ==
    IF keys = {} THEN candidate_ids
    ELSE LET key == CHOOSE k \in keys : TRUE
         IN IF key \notin DOMAIN idx THEN {}
            ELSE IF filter[key] \notin DOMAIN idx[key] THEN {}
            ELSE LET ids_for_this_clause == idx[key][filter[key]]
                     c == IF first_filter_clause THEN ids_for_this_clause
                          ELSE candidate_ids \cap ids_for_this_clause
                 IN IF c = {} THEN {}
                    ELSE FilterLoop(idx, filter, keys \ {key}, FALSE, c)

\* mutant: the posting lists of the clauses are united
Candidates_union(idx, filter) ==
    IF \E key \in DOMAIN filter :
           key \notin DOMAIN idx \/ filter[key] \notin DOMAIN idx[key]
    THEN {}
    ELSE UNION {idx[key][filter[key]] : key \in DOMAIN filter}

\* candidate_ids after the loop
Candidates(idx, filter) == FilterLoop(idx, filter, DOMAIN filter, TRUE, {})

\* the dim floats searchKnn reads at query_vec.data(): the first dim
\* elements, and past the end of a shorter vector whatever the memory holds
data(query_vec, dim) ==
    {d \in [1..dim -> Coords] :
        \A i \in 1..dim : i <= Len(query_vec) => d[i] = query_vec[i]}

\* query(query_vec, n, filter) with a non-empty filter; the length of
\* query_vec is not looked at
queryFiltered(e, query_vec, n, filter) ==
    LET candidate_ids == Candidates(e.metadata_index, filter)
    IN IF candidate_ids = {} THEN {<<>>}
       ELSE UNION {{Results(pq) : pq \in searchKnn(e.hnsw_index, d, n, candidate_ids)} :
                      d \in data(query_vec, e.config.vector_dim)}

-----------------------------------------------------------------------------
(* Codec and files.  A file is <<>> when it does not exist and <<data>>    *)
(* when it does.                                                           *)

\* the elements of S in increasing order of Order (a sequence holding them)
Rank(Order, x) == CHOOSE i \in 1..Len(Order) : Order[i] = x
Sorted(S, Order) ==
    CHOOSE s \in [1..Cardinality(S) -> S] :
        \A i, j \in 1..Cardinality(S) : i < j => Rank(Order, s[i]) < Rank(Order, s[j])
IdOrder == [i \in Ids |-> i]

\* write_metadata_value: the explicit type tag, then the payload
write_metadata_value(val) ==
    IF val[1] = "int64" THEN <<0, val[2]>>
    ELSE IF val[1] = "double" THEN <<1, val[2]>>
    ELSE <<2, val[2]>>

\* read_metadata_value: the alternative the tag names
read_metadata_value(tv) ==
    IF tv[1] = 0 THEN I64(tv[2])
    ELSE IF tv[1] = 1 THEN F64(tv[2])
    ELSE Str(tv[2])

\* write_config / read_config
write_config(cfg) == <<cfg.vector_dim, cfg.max_elements>>
read_config(c) == [vector_dim |-> c[1], max_elements |-> c[2]]

\* save, STORAGE / VECTORS: one entry per record, by id
WriteStorage(st) ==
    LET ids == Sorted(DOMAIN st, IdOrder)
    IN [i \in 1..Len(ids) |->
          LET meta == st[ids[i]].metadata
              keys == Sorted(DOMAIN meta, KeyOrder)
          IN [id |-> ids[i],
              vec_len |-> Len(st[ids[i]].vector),
              vec |-> st[ids[i]].vector,
              meta_pairs |-> Len(keys),
              meta |-> [m \in 1..Len(keys) |->
                          <<keys[m], write_metadata_value(meta[keys[m]])>>]]]

\* save, METADATA INDEX block
WriteIndex(idx) ==
    LET okeys == Sorted(DOMAIN idx, KeyOrder)
    IN [i \in 1..Len(okeys) |->
          LET inner == idx[okeys[i]]
              vals == Sorted(DOMAIN inner, ValueOrder)
          IN [key |-> okeys[i],
              inner |-> [j \in 1..Len(vals) |->
                           [value |-> write_metadata_value(vals[j]),
                            ids |-> Sorted(inner[vals[j]], IdOrder)]]]]

\* hnswlib saveIndex: capacity, element count and every element with its
\* delete mark
saveIndex(g) ==
    LET labels == Sorted(DOMAIN g.points, IdOrder)
    IN [max_elements |-> g.max_elements,
        cur_element_count |-> Len(labels),
        elements |-> [i \in 1..Len(labels) |->
                        [label |-> labels[i],
                         vec |-> g.points[labels[i]].vec,
                         deleted |-> g.points[labels[i]].deleted]]]

\* hnswlib loadIndex(location, space, max_elements_i): the capacity asked
\* for is kept unless the file holds more elements than that, and then
\* the capacity written in the file is taken.  load passes no
\* max_elements_i, which is 0.
loadIndex(img, max_elements_i) ==
    [max_elements |-> IF max_elements_i < img.cur_element_count
                      THEN img.max_elements ELSE max_elements_i,
     points |-> [l \in {img.elements[i].label : i \in 1..img.cur_element_count} |->
                   LET el == img.elements[CHOOSE i \in 1..img.cur_element_count :
                                              img.elements[i].label = l]
                   IN [vec |-> el.vec, deleted |-> el.deleted]]]

\* what save serializes into <path>.tmp
WriteDb(e) ==
    [magic |-> "ORIONDB1",
     format_version |-> FormatVersion,
     config |-> write_config(e.config),
     storage_count |-> Cardinality(DOMAIN e.storage),
     entries |-> WriteStorage(e.storage),
     meta_idx |-> WriteIndex(e.metadata_index)]

\* the fields of the db file in the order save writes and load reads them;
\* a file cut after its first n fields; whether a read finds its field
DbFields == <<"magic", "format_version", "config", "storage_count", "entries", "meta_idx">>
Truncate(f, n) == [k \in {DbFields[i] : i \in 1..n} |-> f[k]]
Has(f, field) == field \in DOMAIN f

\* the failures the calls of save may meet:
\* the ofstream on <path>.tmp opens, the writes to it succeed up to some
\* field (all of them when nothing fails, the magic and the version when
\* the device fills at the config; a stream that failed ignores the later
\* writes), rename of the .hnsw file works, rename of the db file works
WriteCuts == {2, Len(DbFields)}
IoOutcomes ==
    [open_ok : BOOLEAN, fields_written : WriteCuts,
     rename_hnsw_ok : BOOLEAN, rename_db_ok : BOOLEAN]

\* save: the files when it returns, and what it returns
save(e, d, io) ==
    LET d1 == [d EXCEPT !.tmp_hnsw = <<saveIndex(e.hnsw_index)>>]
        d2 == [d1 EXCEPT !.tmp = <<Truncate(WriteDb(e), io.fields_written)>>]
        d3 == IF io.rename_hnsw_ok
              THEN [d2 EXCEPT !.hnsw = d2.tmp_hnsw, !.tmp_hnsw = <<>>]
              ELSE d2
        d4 == [d3 EXCEPT !.db = d3.tmp, !.tmp = <<>>]
    IN IF ~io.open_ok THEN [ret |-> FALSE, disk |-> d1]
       ELSE IF ~io.rename_db_ok THEN [ret |-> FALSE, disk |-> d3]
       ELSE [ret |-> TRUE, disk |-> d4]

\* the places in save where the process may stop, and the files then
CrashPoints == {"hnsw_tmp_written", "db_tmp_partial", "db_tmp_written", "hnsw_renamed"}
saveCrash(e, d, point) ==
    LET d1 == [d EXCEPT !.tmp_hnsw = <<saveIndex(e.hnsw_index)>>]
        dp == [d1 EXCEPT !.tmp = <<[magic |-> "ORIONDB1"]>>]
        d2 == [d1 EXCEPT !.tmp = <<WriteDb(e)>>]
        d3 == [d2 EXCEPT !.hnsw = d2.tmp_hnsw, !.tmp_hnsw = <<>>]
    IN IF point = "hnsw_tmp_written" THEN d1
       ELSE IF point = "db_tmp_partial" THEN dp
       ELSE IF point = "db_tmp_written" THEN d2
       ELSE d3

\* load, STORAGE: storage[id] = {v, meta}, meta built by emplace
ReadMeta(pairs) ==
    [k \in {pairs[m][1] : m \in 1..Len(pairs)} |->
        read_metadata_value(
            pairs[CHOOSE m \in 1..Len(pairs) :
                      pairs[m][1] = k /\ \A m2 \in 1..(m - 1) : pairs[m2][1] # k][2])]

ReadStorage(f) ==
    [id \in {f.entries[i].id : i \in 1..f.storage_count} |->
        LET en == f.entries[CHOOSE i \in 1..f.storage_count :
                                /\ f.entries[i].id = id
                                /\ \A i2 \in (i + 1)..f.storage_count :
                                       f.entries[i2].id # id]
        IN [vector |-> en.vec, metadata |-> ReadMeta(en.meta)]]

\* load, METADATA INDEX block: metadata_index[outer_key][mv] = ids
ReadIndex(blk) ==
    [key \in {blk[i].key : i \in 1..Len(blk)} |->
        LET o == blk[CHOOSE i \in 1..Len(blk) : blk[i].key = key]
        IN [mv \in {read_metadata_value(o.inner[j].value) : j \in 1..Len(o.inner)} |->
               LET en == o.inner[CHOOSE j \in 1..Len(o.inner) :
                                     read_metadata_value(o.inner[j].value) = mv]
               IN {en.ids[n] : n \in 1..Len(en.ids)}]]

\* load, the last loop: addPoint for every entry of storage, a throw ignored
RECURSIVE AddAllIgnoring(_, _, _)
AddAllIgnoring(g, st, ids) ==
    IF ids = {} THEN g
    ELSE LET id == CHOOSE i \in ids : \A j \in ids : i <= j
         IN AddAllIgnoring(IF addPointThrows(g, id) THEN g
                           ELSE addPoint(g, st[id].vector, id),
                           st, ids \ {id})

NoImpl == [storage |-> <<>>, metadata_index |-> <<>>,
           hnsw_index |-> NewIndex(0), config |-> [vector_dim |-> 0, max_elements |-> 0]]

\* Config(): what the Impl of Database::load holds before load() reads
DefaultConfig == [vector_dim |-> 0, max_elements |-> 1000000]

\* load: whether it returns a handle, and the Impl of the handle.
\* read_binary does not look at the stream: a read past the end of the
\* file leaves its variable as it was (config as the constructor set it,
\* storage_count and meta_idx_size 0) and load goes on.
load(d) ==
    IF d.db = <<>> THEN [ret |-> FALSE, impl |-> NoImpl]
    ELSE LET f == d.db[1]
         IN IF f.magic # "ORIONDB1" THEN [ret |-> FALSE, impl |-> NoImpl]
            ELSE LET cfg == IF Has(f, "config") THEN read_config(f.config)
                            ELSE DefaultConfig
                     st == IF Has(f, "entries") THEN ReadStorage(f) ELSE <<>>
                     idx == IF Has(f, "meta_idx") THEN ReadIndex(f.meta_idx) ELSE <<>>
                     g0 == NewIndex(cfg.max_elements)
                     g1 == IF d.hnsw # <<>> THEN loadIndex(d.hnsw[1], 0) ELSE g0
                 IN [ret |-> TRUE,
                     impl |-> [storage |-> st, metadata_index |-> idx,
                               hnsw_index |-> AddAllIgnoring(g1, st, DOMAIN st),
                               config |-> cfg]]

-----------------------------------------------------------------------------
(* The state after Database::create(path, CreateConfig) returned a handle: *)
(* the constructor of Impl, then save()                                    *)

NoFiles == [db |-> <<>>, hnsw |-> <<>>, tmp |-> <<>>, tmp_hnsw |-> <<>>]
IoOk == [open_ok |-> TRUE, fields_written |-> Len(DbFields),
         rename_hnsw_ok |-> TRUE, rename_db_ok |-> TRUE]
Created == [storage |-> <<>>, metadata_index |-> <<>>,
            hnsw_index |-> NewIndex(CreateConfig.max_elements),
            config |-> CreateConfig]
\* the threads that share the handle; a thread that is in no call
Threads == 1..NThreads
Idle == [pc |-> "idle"]
Impure == [pure |-> FALSE, ids |-> {}, failed |-> FALSE, all_true |-> FALSE]

Init ==
    /\ storage = Created.storage
    /\ metadata_index = Created.metadata_index
    /\ hnsw_index = Created.hnsw_index
    /\ config = Created.config
    /\ index_mutex = "free"
    /\ disk = save(Created, NoFiles, IoOk).disk
    /\ alive = TRUE
    /\ last = [op |-> "create"]
    /\ added = {}
    /\ hist = [pure |-> TRUE, ids |-> {}, failed |-> FALSE, all_true |-> TRUE]
    /\ steps = 0
    /\ threads = [t \in Threads |-> Idle]
    /\ written = [id \in Ids |-> [st |-> "absent"]]

SetImpl(r) ==
    /\ storage' = r.storage
    /\ metadata_index' = r.metadata_index
    /\ hnsw_index' = r.hnsw_index
    /\ config' = r.config

\* a call can start: the process runs and lock_guard gets index_mutex
CanCall == alive /\ index_mutex = "free"

-----------------------------------------------------------------------------
(* The calls *)

\* whether add(id, vec, ...) gets to rebuild_index: only then does the
\* allocation of the new index matter
Rebuilds(e, id, vec) ==
    /\ Len(vec) = e.config.vector_dim
    /\ addPointThrows(IF id \in DOMAIN e.storage THEN markDelete(e.hnsw_index, id)
                      ELSE e.hnsw_index, id)
AllocOutcomes(e, id, vec) == IF Rebuilds(e, id, vec) THEN BOOLEAN ELSE {TRUE}

AddStep(id, vec, meta, allocOk) ==
    /\ CanCall
    /\ LET r == add(Impl, id, vec, meta, allocOk)
       IN /\ SetImpl(r)
          /\ last' = [op |-> "add", id |-> id, vec |-> vec, meta |-> meta,
                      ret |-> r.ret, why |-> r.why, before |-> count(Impl),
                      prev |-> IF last.op = "add" /\ last.ret /\ last.id = id
                               THEN [op |-> "add", meta |-> last.meta]
                               ELSE [op |-> "other"]]
          /\ added' = IF r.ret THEN added \cup {id} ELSE added
          /\ hist' = IF hist.pure /\ id \notin hist.ids /\ r.why # "dimension"
                     THEN [pure |-> TRUE, ids |-> hist.ids \cup {id},
                           failed |-> hist.failed \/ (Rebuilds(Impl, id, vec) /\ ~allocOk),
                           all_true |-> hist.all_true /\ r.ret]
                     ELSE Impure
    /\ UNCHANGED <<index_mutex, disk, alive, threads, written>>

RemoveStep(id) ==
    /\ CanCall
    /\ LET r == remove(Impl, id)
       IN /\ SetImpl(r)
          /\ last' = [op |-> "remove", id |-> id, ret |-> r.ret,
                      present |-> id \in DOMAIN storage, before |-> count(Impl)]
    /\ added' = added \ {id}
    /\ hist' = Impure
    /\ UNCHANGED <<index_mutex, disk, alive, threads, written>>

\* the arguments of add: vectors of the database dimension with any
\* metadata, a vector of another length with one
AddArgs == (Vectors \X Metadatas) \cup (BadVectors \X {[k \in {"c"} |-> I64(1)]})

Add ==
    /\ \E id \in Ids, a \in AddArgs :
          \E allocOk \in AllocOutcomes(Impl, id, a[1]) :
              AddStep(id, a[1], a[2], allocOk)
    /\ UNCHANGED steps

Remove ==
    /\ \E id \in Ids : RemoveStep(id)
    /\ UNCHANGED steps

Get ==
    /\ CanCall
    /\ \E id \in Ids : last' = [op |-> "get", id |-> id, res |-> get(Impl, id)]
    /\ UNCHANGED <<threads, written>>
    /\ UNCHANGED <<storage, metadata_index, hnsw_index, config, index_mutex,
                   disk, alive, added, hist, steps>>

Count ==
    /\ CanCall
    /\ last' = [op |-> "count", res |-> count(Impl)]
    /\ UNCHANGED <<threads, written>>
    /\ UNCHANGED <<storage, metadata_index, hnsw_index, config, index_mutex,
                   disk, alive, added, hist, steps>>

\* query(query_vec, n)
Query ==
    /\ CanCall
    /\ \E q \in QueryVectors \cup BadVectors, n \in 1..MaxK :
         \E res \in query(Impl, q, n) :
            last' = [op |-> "query", q |-> q, n |-> n, res |-> res]
    /\ UNCHANGED <<threads, written>>
    /\ UNCHANGED <<storage, metadata_index, hnsw_index, config, index_mutex,
                   disk, alive, added, hist, steps>>

\* query(query_vec, n, filter), filter not empty
QueryFiltered ==
    /\ CanCall
    /\ \E q \in QueryVectors \cup BadVectors, n \in 1..MaxK, filter \in Metadatas :
         /\ DOMAIN filter # {}
         /\ q \in BadVectors => DOMAIN filter = {"c"}
         /\ \E res \in queryFiltered(Impl, q, n, filter) :
               last' = [op |-> "queryf", q |-> q, n |-> n, filter |-> filter,
                        res |-> res]
    /\ UNCHANGED <<threads, written>>
    /\ UNCHANGED <<storage, metadata_index, hnsw_index, config, index_mutex,
                   disk, alive, added, hist, steps>>

\* query(query_vec, n, filter), filter empty: with index_mutex held it calls
\* query(query_vec, n), which locks index_mutex again.  Locking a std::mutex
\* the thread owns is undefined: the call blocks for ever, or goes on.
QueryEmptyFilter ==
    /\ CanCall
    /\ \E q \in QueryVectors, n \in 1..MaxK :
         \/ /\ index_mutex' = "held"
            /\ last' = [op |-> "queryf_blocked", q |-> q, n |-> n, filter |-> <<>>]
         \/ /\ index_mutex' = index_mutex
            /\ \E res \in query(Impl, q, n) :
                  last' = [op |-> "queryf", q |-> q, n |-> n, filter |-> <<>>,
                           res |-> res]
    /\ UNCHANGED <<threads, written>>
    /\ UNCHANGED <<storage, metadata_index, hnsw_index, config,
                   disk, alive, added, hist, steps>>

Next == Add \/ Remove \/ Get \/ Count \/ Query \/ QueryFiltered \/ QueryEmptyFilter

Spec == Init /\ [][Next]_vars

-----------------------------------------------------------------------------
(* Persistence: calls counted up to MaxSteps, save with the failures and   *)
(* the stops it may meet, load into a fresh handle                         *)

\* the metadata the adds here draw from: every key set, so that every
\* alternative of MetadataValue is written and read
DiskMetadatas == {m \in Metadatas : DOMAIN m = Keys}

DAdd ==
    /\ steps < MaxSteps
    /\ \E id \in Ids, vec \in Vectors, meta \in DiskMetadatas :
          \E allocOk \in AllocOutcomes(Impl, id, vec) :
              AddStep(id, vec, meta, allocOk)
    /\ steps' = steps + 1

DRemove ==
    /\ steps < MaxSteps
    /\ \E id \in Ids : RemoveStep(id)
    /\ steps' = steps + 1

\* save
Save ==
    /\ steps < MaxSteps
    /\ CanCall
    /\ \E io \in IoOutcomes :
          LET r == save(Impl, disk, io)
          IN /\ disk' = r.disk
             /\ last' = [op |-> "save", ret |-> r.ret, io |-> io]
    /\ steps' = steps + 1
    /\ UNCHANGED <<threads, written>>
    /\ UNCHANGED <<storage, metadata_index, hnsw_index, config, index_mutex,
                   alive, added, hist>>

\* the process stops inside save: the handle and its Impl are gone
SaveCrash ==
    /\ steps < MaxSteps
    /\ CanCall
    /\ \E point \in CrashPoints :
          /\ disk' = saveCrash(Impl, disk, point)
          /\ last' = [op |-> "crash", point |-> point]
    /\ alive' = FALSE
    /\ SetImpl(NoImpl)
    /\ added' = {}
    /\ hist' = Impure
    /\ steps' = steps + 1
    /\ UNCHANGED <<threads, written>>
    /\ UNCHANGED index_mutex

\* Database::load(path) in a process started for it: the handle replaces
\* the one held before
Load ==
    /\ steps < MaxSteps
    /\ LET r == load(disk)
       IN /\ SetImpl(r.impl)
          /\ alive' = r.ret
          /\ last' = [op |-> "load", ret |-> r.ret]
          /\ added' = DOMAIN r.impl.storage
    /\ index_mutex' = "free"
    /\ hist' = Impure
    /\ steps' = steps + 1
    /\ UNCHANGED <<threads, written>>
    /\ UNCHANGED disk

\* the file at the path is one written with another format_version (by a
\* build of another version of the format), under the same magic
OtherVersionFile ==
    /\ steps < MaxSteps
    /\ disk.db # <<>>
    /\ Has(disk.db[1], "format_version")
    /\ disk.db[1].format_version = FormatVersion
    /\ disk' = [disk EXCEPT !.db = << [disk.db[1] EXCEPT
                                         !.format_version = FormatVersion + 1] >>]
    /\ last' = [op |-> "other_version"]
    /\ steps' = steps + 1
    /\ UNCHANGED <<threads, written>>
    /\ UNCHANGED <<storage, metadata_index, hnsw_index, config, index_mutex,
                   alive, added, hist>>

\* the file at the path is a strict prefix of an artifact save wrote: it
\* ends after one of its fields.  (A file that ends inside the STORAGE
\* block makes load use an id it never read; such files are not drawn.)
TruncatedFile ==
    /\ steps < MaxSteps
    /\ disk.db # <<>>
    /\ DOMAIN disk.db[1] = {DbFields[i] : i \in 1..Len(DbFields)}
    /\ \E n \in 1..(Len(DbFields) - 1) :
          /\ DbFields[n] = "storage_count" => disk.db[1].storage_count = 0
          /\ disk' = [disk EXCEPT !.db = << Truncate(disk.db[1], n) >>]
          /\ last' = [op |-> "truncated", fields |-> n,
                      records |-> disk.db[1].storage_count]
    /\ steps' = steps + 1
    /\ UNCHANGED <<threads, written>>
    /\ UNCHANGED <<storage, metadata_index, hnsw_index, config, index_mutex,
                   alive, added, hist>>

\* Database::create(path, cfg): the constructor of Impl, then save(); a
\* handle if save returned true
CreateConfigs == {[vector_dim |-> CreateConfig.vector_dim, max_elements |-> m] :
                     m \in {InitCap, InitCap + 1}}
NewImpl(cfg) == [storage |-> <<>>, metadata_index |-> <<>>,
                 hnsw_index |-> NewIndex(cfg.max_elements), config |-> cfg]
create(cfg, d, io) ==
    LET r == save(NewImpl(cfg), d, io)
    IN [ret |-> r.ret, impl |-> IF r.ret THEN NewImpl(cfg) ELSE NoImpl, disk |-> r.disk]

\* the number of records in the file at the path, as far as it holds them
RecordsAt(d) ==
    IF d.db # <<>> /\ Has(d.db[1], "entries") THEN Len(d.db[1].entries) ELSE 0

\* Database::create on the path, in a process started for it, whatever the
\* path holds: the handle replaces the one held before
Create ==
    /\ steps < MaxSteps
    /\ \E cfg \in CreateConfigs, io \in IoOutcomes :
          LET r == create(cfg, disk, io)
          IN /\ SetImpl(r.impl)
             /\ alive' = r.ret
             /\ disk' = r.disk
             /\ last' = [op |-> "create_over", ret |-> r.ret, config |-> cfg,
                         records |-> RecordsAt(disk)]
    /\ index_mutex' = "free"
    /\ added' = {}
    /\ hist' = Impure
    /\ steps' = steps + 1
    /\ UNCHANGED <<threads, written>>

DiskNext ==
    \/ DAdd \/ DRemove \/ Save \/ SaveCrash \/ Load \/ OtherVersionFile
    \/ TruncatedFile \/ Create

DiskSpec == Init /\ [][DiskNext]_vars

-----------------------------------------------------------------------------
(* Threads sharing one handle.  A call is made in steps: the call starts,  *)
(* std::lock_guard takes index_mutex and the body runs, the guard releases *)
(* the mutex as the call returns.                                          *)

\* mutant: the guard never waits
lock_available_always(m) == TRUE

\* std::lock_guard<std::mutex> lock(index_mutex) gets the mutex
lock_available(m) == m = "free"

\* the vector and the metadata the threads add
ThreadVector == CHOOSE v \in QueryVectors : TRUE
ThreadMetadata == [k \in {"c"} |-> I64(1)]

\* the calls the threads make
Calls ==
    {[op |-> "add", id |-> id, vec |-> ThreadVector, meta |-> ThreadMetadata] : id \in Ids}
    \cup {[op |-> "add", id |-> id, vec |-> <<>>, meta |-> <<>>] : id \in {1}}
    \cup {[op |-> "remove", id |-> id] : id \in Ids}
    \cup {[op |-> "get", id |-> id] : id \in Ids}
    \cup {[op |-> "count"]}
    \cup {[op |-> "query", q |-> ThreadVector, n |-> 1]}
    \cup {[op |-> "queryf", q |-> ThreadVector, n |-> 1, filter |-> f] :
             f \in {<<>>, ThreadMetadata}}
    \cup {[op |-> "save"]}

\* the operations the spec calls writers and readers
Writers == {"add", "remove", "save"}
Readers == {"query", "queryf", "get", "count"}

\* a thread is between taking index_mutex and releasing it
InCriticalSection(t) == threads[t].pc \in {"relock", "blocked", "unlock"}

\* a thread is in a call that has not returned
InCall(t) == threads[t].pc # "idle"

\* what is known of the store when nothing of it is
Unknown == [id \in Ids |-> [st |-> "any"]]

\* the record of the adds made, at the start of a call
HistAtCall(c) ==
    IF ~hist.pure THEN Impure
    ELSE IF c.op = "add"
    THEN IF c.id \notin hist.ids /\ ~dimension_mismatch(c.vec, config)
         THEN [hist EXCEPT !.ids = hist.ids \cup {c.id}]
         ELSE Impure
    ELSE IF c.op \in {"query", "get", "count"} THEN hist
    ELSE Impure

\* a call starts.  add tests the length of the vector before it locks.  A
\* reader is given what the writes that returned left (snap), which is no
\* longer known when an add or a remove is under way in another thread
Call(t) ==
    /\ alive
    /\ threads[t].pc = "idle"
    /\ \E c \in Calls :
         /\ threads' =
              [u \in Threads |->
                 IF u = t
                 THEN IF c.op = "add" /\ dimension_mismatch(c.vec, config)
                      THEN [pc |-> "return", call |-> c,
                            res |-> [ret |-> FALSE, why |-> "dimension"]]
                      ELSE [pc |-> "lock", call |-> c,
                            snap |-> IF c.op \in Readers
                                     THEN IF \E w \in Threads \ {t} :
                                               /\ threads[w].pc \notin {"idle", "return"}
                                               /\ threads[w].call.op \in {"add", "remove"}
                                          THEN Unknown ELSE written
                                     ELSE <<>>]
                 ELSE IF /\ c.op \in {"add", "remove"}
                         /\ threads[u].pc \in {"lock", "relock"}
                         /\ threads[u].call.op \in Readers
                      THEN [threads[u] EXCEPT !.snap = Unknown]
                      ELSE threads[u]]
         /\ hist' = HistAtCall(c)
    /\ UNCHANGED <<storage, metadata_index, hnsw_index, config, index_mutex,
                   disk, alive, last, added, steps, written>>

\* the add that returned before locking
Return(t) ==
    /\ threads[t].pc = "return"
    /\ threads' = [threads EXCEPT ![t] = Idle]
    /\ UNCHANGED <<storage, metadata_index, hnsw_index, config, index_mutex,
                   disk, alive, last, added, hist, steps, written>>

\* the thread is at the end of the body with this result
Done(t, res) ==
    threads' = [threads EXCEPT ![t] = [pc |-> "unlock", call |-> threads[t].call,
                                       snap |-> threads[t].snap, res |-> res]]

\* a writer: std::lock_guard<std::mutex> lock(index_mutex), then the body
Write(t) ==
    /\ threads[t].pc = "lock"
    /\ lock_available(index_mutex)
    /\ index_mutex' = "held"
    /\ LET c == threads[t].call
       IN \/ /\ c.op = "add"
             /\ \E allocOk \in AllocOutcomes(Impl, c.id, c.vec) :
                  LET r == add(Impl, c.id, c.vec, c.meta, allocOk)
                  IN /\ SetImpl(r)
                     /\ Done(t, [ret |-> r.ret, why |-> r.why])
                     /\ hist' = IF hist.pure
                                THEN [hist EXCEPT !.failed = @ \/ (Rebuilds(Impl, c.id, c.vec) /\ ~allocOk),
                                                  !.all_true = @ /\ r.ret]
                                ELSE hist
             /\ UNCHANGED disk
          \/ /\ c.op = "remove"
             /\ LET r == remove(Impl, c.id)
                IN SetImpl(r) /\ Done(t, [ret |-> r.ret, why |-> r.why])
             /\ UNCHANGED <<disk, hist>>
          \/ /\ c.op = "save"
             /\ LET r == save(Impl, disk, IoOk)
                IN disk' = r.disk /\ Done(t, [ret |-> r.ret, why |-> "ok"])
             /\ UNCHANGED <<storage, metadata_index, hnsw_index, config, hist>>
    /\ UNCHANGED <<alive, last, added, steps, written>>

\* mutant: the clauses are looked up with operator[], which inserts the
\* key and the value it does not find
find_clauses_subscript(idx, filter) ==
    [k \in DOMAIN idx \cup DOMAIN filter |->
        LET inner == IF k \in DOMAIN idx THEN idx[k] ELSE <<>>
        IN IF k \in DOMAIN filter /\ filter[k] \notin DOMAIN inner
           THEN Put(inner, filter[k], {})
           ELSE inner]

\* metadata_index after the filtered query looked its clauses up: find()
\* on the outer and on the inner map inserts nothing
find_clauses(idx, filter) == idx

\* a reader: std::lock_guard<std::mutex> lock(index_mutex), then the body;
\* query with an empty filter goes on to lock again
Read(t) ==
    /\ threads[t].pc = "lock"
    /\ lock_available(index_mutex)
    /\ index_mutex' = "held"
    /\ LET c == threads[t].call
       IN \/ /\ c.op = "get" /\ Done(t, get(Impl, c.id))
             /\ UNCHANGED metadata_index
          \/ /\ c.op = "count" /\ Done(t, count(Impl))
             /\ UNCHANGED metadata_index
          \/ /\ c.op = "query" /\ \E res \in query(Impl, c.q, c.n) : Done(t, res)
             /\ UNCHANGED metadata_index
          \/ /\ c.op = "queryf" /\ DOMAIN c.filter # {}
             /\ \E res \in queryFiltered(Impl, c.q, c.n, c.filter) : Done(t, res)
             /\ metadata_index' = find_clauses(metadata_index, c.filter)
          \/ /\ c.op = "queryf" /\ DOMAIN c.filter = {}
             /\ threads' = [threads EXCEPT ![t].pc = "relock"]
             /\ UNCHANGED metadata_index
    /\ UNCHANGED <<storage, hnsw_index, config,
                   disk, alive, last, added, hist, steps, written>>

\* query(query_vec, n) called with index_mutex held by the caller: its
\* lock_guard locks a std::mutex the thread owns, which is undefined.  The
\* thread blocks for ever, still owning the mutex, or the lock goes through
\* and the query is made.
Relock(t) ==
    /\ threads[t].pc = "relock"
    /\ \/ threads' = [threads EXCEPT ![t].pc = "blocked"]
       \/ \E res \in query(Impl, threads[t].call.q, threads[t].call.n) : Done(t, res)
    /\ UNCHANGED <<storage, metadata_index, hnsw_index, config, index_mutex,
                   disk, alive, last, added, hist, steps, written>>

\* what a write that returned left of its id
Left(c, res) ==
    IF c.op = "add"
    THEN IF res.ret THEN [st |-> "stored", vector |-> c.vec, metadata |-> c.meta]
         ELSE [st |-> "any"]
    ELSE [st |-> "absent"]

\* the guard goes out of scope and the call returns
Unlock(t) ==
    /\ threads[t].pc = "unlock"
    /\ index_mutex' = "free"
    /\ LET c == threads[t].call
           res == threads[t].res
       IN written' = IF c.op = "add" \/ (c.op = "remove" /\ res.ret)
                     THEN [written EXCEPT ![c.id] = Left(c, res)]
                     ELSE written
    /\ threads' = [threads EXCEPT ![t] = Idle]
    /\ UNCHANGED <<storage, metadata_index, hnsw_index, config,
                   disk, alive, last, added, hist, steps>>

ThreadNext ==
    \E t \in Threads :
       Call(t) \/ Return(t) \/ Write(t) \/ Read(t) \/ Relock(t) \/ Unlock(t)

ThreadSpec == Init /\ [][ThreadNext]_vars

-----------------------------------------------------------------------------
(* Growth: databases created with every capacity up to MaxCap and filled,  *)
(* or filled but for one id, by adds of the ids from 1 on; then add and    *)
(* remove calls, counted up to GrowSteps                                   *)

MaxCap == 12
GrowSteps == 2

GrowIds == 1..(MaxCap + 1)
GrowVector == [i \in 1..CreateConfig.vector_dim |-> 0]
GrowConfig(cap) == [vector_dim |-> CreateConfig.vector_dim, max_elements |-> cap]

\* the Impl a call leaves
ImplOf(r) == [storage |-> r.storage, metadata_index |-> r.metadata_index,
              hnsw_index |-> r.hnsw_index, config |-> r.config]

\* Database::create with capacity cap, then add(1, ...), ..., add(k, ...)
RECURSIVE Filled(_, _)
Filled(cap, k) ==
    IF k = 0 THEN NewImpl(GrowConfig(cap))
    ELSE ImplOf(add(Filled(cap, k - 1), k, GrowVector, <<>>, TRUE))

GrowInit ==
    /\ \E cap \in 1..MaxCap : \E k \in {cap - 1, cap} :
          /\ storage = Filled(cap, k).storage
          /\ metadata_index = Filled(cap, k).metadata_index
          /\ hnsw_index = Filled(cap, k).hnsw_index
          /\ config = Filled(cap, k).config
          /\ disk = create(GrowConfig(cap), NoFiles, IoOk).disk
          /\ added = 1..k
    /\ index_mutex = "free"
    /\ alive = TRUE
    /\ last = [op |-> "create"]
    /\ hist = Impure
    /\ steps = 0
    /\ threads = [t \in Threads |-> Idle]
    /\ written = [id \in Ids |-> [st |-> "absent"]]

\* add, with what it found: whether the id was stored, whether the graph
\* had its label, and the number of labels of the graph
GrowAdd ==
    /\ steps < GrowSteps
    /\ CanCall
    /\ \E id \in GrowIds :
          \E allocOk \in AllocOutcomes(Impl, id, GrowVector) :
             LET r == add(Impl, id, GrowVector, <<>>, allocOk)
             IN /\ SetImpl(r)
                /\ last' = [op |-> "add", id |-> id, ret |-> r.ret, why |-> r.why,
                            before |-> count(Impl),
                            stored |-> id \in DOMAIN storage,
                            label |-> id \in DOMAIN hnsw_index.points,
                            labels |-> Cardinality(DOMAIN hnsw_index.points)]
                /\ added' = IF r.ret THEN added \cup {id} ELSE added
    /\ hist' = Impure
    /\ steps' = steps + 1
    /\ UNCHANGED <<index_mutex, disk, alive, threads, written>>

GrowRemove ==
    /\ steps < GrowSteps
    /\ \E id \in GrowIds : RemoveStep(id)
    /\ steps' = steps + 1

GrowNext == GrowAdd \/ GrowRemove

GrowSpec == GrowInit /\ [][GrowNext]_vars

-----------------------------------------------------------------------------
(* Properties *)

\* the (key, value) pairs of a Metadata
PairsOf(meta) == {<<k, meta[k]>> : k \in DOMAIN meta}

\* the (key, value) pairs whose posting set holds id
PostingsOf(idx, id) ==
    UNION {{<<k, v>> : v \in {w \in DOMAIN idx[k] : id \in idx[k][w]}} : k \in DOMAIN idx}

\* the inverted index holds id under the pairs of its record and nowhere
\* else, and holds no empty posting set and no key without values
IndexInvariant(e) ==
    /\ \A id \in Ids :
          PostingsOf(e.metadata_index, id) =
             IF id \in DOMAIN e.storage THEN PairsOf(e.storage[id].metadata) ELSE {}
    /\ \A k \in DOMAIN e.metadata_index :
          /\ DOMAIN e.metadata_index[k] # {}
          /\ \A v \in DOMAIN e.metadata_index[k] : e.metadata_index[k][v] # {}

\* every stored id has an undeleted label with its vector; any other label
\* is marked deleted
GraphInvariant(e) ==
    \A id \in Ids :
       IF id \in DOMAIN e.storage
       THEN /\ id \in DOMAIN e.hnsw_index.points
            /\ ~e.hnsw_index.points[id].deleted
            /\ e.hnsw_index.points[id].vec = e.storage[id].vector
       ELSE id \in DOMAIN e.hnsw_index.points => e.hnsw_index.points[id].deleted

\* the ids of a result
ResultIds(res) == {res[i].id : i \in 1..Len(res)}

\* every result either query overload may return, for any arguments
AllResults(e) ==
    UNION ({query(e, q, n) : q \in Vectors, n \in 1..MaxK}
           \cup {queryFiltered(e, q, n, f) :
                   q \in Vectors, n \in 1..MaxK, f \in Filters \ {<<>>}})

\* C1: after any sequence of add and remove calls the inverted index is
\* exactly the inverse image of the primary store, with nothing empty kept.
\* (Violated: an add that returns false has stored the record without its
\* postings.)
C1_IndexIsInverse == IndexInvariant(Impl)

\* C2: count() is the number of ids added by an add that returned true and
\* not removed since, and an add that returns false leaves count() as it
\* was.  (Violated: an add that fails after storage[id] was assigned.)
C2_CountIsAddedIds ==
    /\ count(Impl) = Cardinality(added)
    /\ last.op = "add" /\ ~last.ret => count(Impl) = last.before

\* C3: after every successful add or remove the graph index agrees with the
\* primary store.  (Violated: a record stored by a failed add has no label.)
C3_GraphMatchesStore ==
    last.op \in {"add", "remove"} /\ last.ret => GraphInvariant(Impl)

\* C4: after add(id, v1, m1) and then add(id, v2, m2), both returning true,
\* get(id) is (v2, m2), id is counted once, id is in the posting sets of
\* the pairs of m2 and of no other pair, and no query filtered by a pair of
\* m1 that is not in m2 returns id.
C4_ReplaceSemantics ==
    last.op = "add" /\ last.ret /\ last.prev.op = "add" =>
       /\ get(Impl, last.id) = << <<last.vec, last.meta>> >>
       /\ count(Impl) = last.before
       /\ PostingsOf(metadata_index, last.id) = PairsOf(last.meta)
       /\ \A p \in PairsOf(last.prev.meta) \ PairsOf(last.meta) :
             \A q \in Vectors, n \in 1..MaxK :
                \A res \in queryFiltered(Impl, q, n, [k \in {p[1]} |-> p[2]]) :
                   last.id \notin ResultIds(res)

\* a replace that changed the metadata under a key and dropped another key
C4_Witness ==
    /\ last.op = "add" /\ last.ret /\ last.prev.op = "add"
    /\ PairsOf(last.prev.meta) \ PairsOf(last.meta) # {}
    /\ PairsOf(last.meta) \ PairsOf(last.prev.meta) # {}
    /\ Cardinality(DOMAIN storage) > 1

\* C5: remove(id) of a stored id returns true; then get(id) is empty,
\* count() is one less, id is in no posting set, and no query returns an
\* id that is not in the store (a removed id is not until it is added
\* again).
C5_RemoveRetracts ==
    /\ last.op = "remove" /\ last.present => last.ret
    /\ last.op = "remove" /\ last.ret =>
          /\ get(Impl, last.id) = <<>>
          /\ count(Impl) = last.before - 1
          /\ PostingsOf(metadata_index, last.id) = {}
    /\ \A res \in AllResults(Impl) : ResultIds(res) \subseteq DOMAIN storage
    /\ last.op \in {"query", "queryf"} => ResultIds(last.res) \subseteq DOMAIN storage

\* a remove that left another record, whose label the queries still return
C5_Witness ==
    /\ last.op = "remove" /\ last.ret
    /\ last.id \in DOMAIN hnsw_index.points
    /\ \E res \in AllResults(Impl) : res # <<>>

\* what the calls of a handle show: count(), get(id) for every id, and the
\* results of every query
Observable(e) ==
    [count |-> count(e),
     get |-> [id \in Ids |-> get(e, id)],
     query |-> [a \in Vectors \X (1..MaxK) |-> query(e, a[1], a[2])],
     queryf |-> [a \in Vectors \X (1..MaxK) \X (Filters \ {<<>>}) |->
                   queryFiltered(e, a[1], a[2], a[3])]]

\* C6: save() returning true and then load(path) give a handle that shows
\* what the saved engine showed.  (Violated: save returns true when the
\* rename onto <path>.hnsw failed, and load then reads the older graph.)
C6_SaveLoadRoundTrip ==
    [][last.op = "save" /\ last.ret /\ last'.op = "load" /\ last'.ret
          => Observable(Impl') = Observable(Impl)]_vars

\* C7: if the process stops inside save, a later load reads the state of
\* the previous completed save or the state being saved.  (Violated: save
\* renames the .hnsw file before the db file.)
C7_SaveIsAtomic ==
    [][last'.op = "crash"
          => load(disk').impl \in {load(disk).impl,
                                   load(save(Impl, disk, IoOk).disk).impl}]_vars

C9_FailedAddChangesNothing ==
    [][last'.op = "add" /\ last'.why = "rebuild"
          => /\ count(Impl') = count(Impl)
             /\ \A id \in Ids : get(Impl', id) = get(Impl, id)
             /\ metadata_index' = metadata_index]_vars

\* the ids whose record has, for every key of the filter, the filter's value
Matching(st, filter) ==
    {id \in DOMAIN st :
        \A key \in DOMAIN filter :
           key \in DOMAIN st[id].metadata /\ st[id].metadata[key] = filter[key]}

\* C10: a query with a non-empty filter returns only ids whose metadata has
\* the filter's value under every key of the filter, and nothing when some
\* clause of the filter is met by no record.
C10_FilterIsConjunctive ==
    /\ \A q \in Vectors, n \in 1..MaxK, f \in Filters \ {<<>>} :
          \A res \in queryFiltered(Impl, q, n, f) :
             /\ ResultIds(res) \subseteq Matching(storage, f)
             /\ (\E key \in DOMAIN f :
                    Matching(storage, [k \in {key} |-> f[key]]) = {}) => res = <<>>
    /\ last.op = "queryf" /\ DOMAIN last.filter # {} =>
          ResultIds(last.res) \subseteq Matching(storage, last.filter)

\* a filter of two clauses that kept one record and excluded another
C10_Witness ==
    /\ last.op = "queryf" /\ DOMAIN last.filter = Keys
    /\ last.res # <<>>
    /\ DOMAIN storage \ Matching(storage, last.filter) # {}
    /\ \E id \in DOMAIN storage \ Matching(storage, last.filter) :
          \E key \in Keys : id \in Matching(storage, [k \in {key} |-> last.filter[key]])

\* C11: query(q, k, {}) returns a result that query(q, k) returns in the
\* same state.  (Violated: the call locks index_mutex twice and may never
\* return.)
C11_EmptyFilterIsUnfiltered ==
    last.op \in {"queryf", "queryf_blocked"} /\ DOMAIN last.filter = {} =>
       /\ last.op = "queryf"
       /\ last.res \in query(Impl, last.q, last.n)

\* C17: add with a vector of another length than the database dimension
\* returns false and leaves the store, the posting lists, the graph and
\* the capacity as they were, whether or not the id is stored.
C17_DimensionMismatchRejected ==
    [][last'.op = "add" /\ Len(last'.vec) # config.vector_dim =>
          /\ ~last'.ret
          /\ count(Impl') = count(Impl)
          /\ get(Impl', last'.id) = get(Impl, last'.id)
          /\ storage' = storage
          /\ metadata_index' = metadata_index
          /\ hnsw_index' = hnsw_index
          /\ config' = config]_vars

\* a refused add for an id that is stored with other metadata
C17_Witness ==
    /\ last.op = "add" /\ Len(last.vec) # config.vector_dim /\ ~last.ret
    /\ last.id \in DOMAIN storage
    /\ storage[last.id].metadata # last.meta

\* C18: a query with a vector of another length than the database
\* dimension returns nothing, with or without a filter.  (Violated: the
\* overload with a filter does not look at the length.)
C18_DimensionMismatchEmpty ==
    last.op \in {"query", "queryf"} /\ Len(last.q) # config.vector_dim =>
       last.res = <<>>

\* C19: remove and get of an id that is not stored return false and
\* nothing, and leave the store, the posting lists, the graph and the
\* capacity as they were.
C19_UnknownIdIsNoError ==
    [][/\ last'.op = "remove" /\ last'.id \notin DOMAIN storage =>
             /\ ~last'.ret
             /\ storage' = storage /\ metadata_index' = metadata_index
             /\ hnsw_index' = hnsw_index /\ config' = config
       /\ last'.op = "get" /\ last'.id \notin DOMAIN storage =>
             /\ last'.res = <<>>
             /\ storage' = storage /\ metadata_index' = metadata_index
             /\ hnsw_index' = hnsw_index /\ config' = config]_vars

\* an unknown id removed while another is stored and the id has a label
\* marked deleted in the graph
C19_Witness ==
    /\ last.op = "remove" /\ ~last.present /\ ~last.ret
    /\ DOMAIN storage # {}
    /\ last.id \in DOMAIN hnsw_index.points

\* C20: load of a file with the known magic and a format_version other
\* than the supported one returns no handle.  (Violated: load reads
\* format_version and never compares it.)
C20_VersionMismatchRefused ==
    /\ last.op = "load"
    /\ disk.db # <<>>
    /\ disk.db[1].magic = WriteDb(Created).magic
    /\ Has(disk.db[1], "format_version")
    /\ disk.db[1].format_version # FormatVersion
    => ~last.ret

\* C12: every call returns and leaves index_mutex free, and no call locks
\* index_mutex while its thread owns it.  (Violated: query with an empty
\* filter calls query(query_vec, n) with the lock held, and may block for
\* ever owning it.)
C12_NoCallLocksTwice ==
    \A t \in Threads : threads[t].pc \notin {"relock", "blocked"}

\* the conclusion of C13: the adds returned true, a query returned at most
\* n results, and when every call has returned count() is the number of
\* ids added and get finds each
AddsAllDone ==
    /\ hist.all_true
    /\ \A t \in Threads :
          threads[t].pc = "unlock" =>
             /\ threads[t].call.op = "add" => threads[t].res.ret
             /\ threads[t].call.op = "query" => Len(threads[t].res) <= threads[t].call.n
    /\ (\A t \in Threads : ~InCall(t)) =>
          /\ count(Impl) = Cardinality(hist.ids)
          /\ \A id \in hist.ids : get(Impl, id) # <<>>

C14_WritersExclusive ==
    /\ [](/\ Cardinality({t \in Threads : InCriticalSection(t)}) <= 1
          /\ (\E t \in Threads : InCriticalSection(t)) <=> index_mutex = "held")
    /\ [][Impl' # Impl =>
             /\ index_mutex' = "held"
             /\ \E t \in Threads :
                   /\ threads[t].pc = "lock" /\ threads'[t].pc = "unlock"
                   /\ threads[t].call.op \in {"add", "remove"}
                   /\ \A u \in Threads \ {t} : ~InCriticalSection(u)']_vars

\* an add that replaced the graph holds the lock while a writer waits
C14_Witness ==
    \E t, u \in Threads :
       /\ threads[t].pc = "unlock" /\ threads[t].call.op = "add"
       /\ threads[t].res.why = "rebuilt"
       /\ threads[u].pc = "lock" /\ threads[u].call.op \in {"remove", "save"}

\* C15: a reader waits for the lock only while a writer holds it.
\* (Violated: index_mutex is a std::mutex, so a reader holding it keeps
\* every other reader out.)
C15_ReadersShare ==
    \A t \in Threads :
       /\ threads[t].pc = "lock" /\ threads[t].call.op \in Readers
       /\ ~lock_available(index_mutex)
       => \E u \in Threads : InCriticalSection(u) /\ threads[u].call.op \in Writers

\* the ids stored according to what the returned writes left
StoredIn(snap) == {id \in Ids : snap[id].st = "stored"}

\* C16: a get, count or query that starts after an add or a remove
\* returned sees what the writes that returned before it started left (no
\* add or remove being under way during the read): get returns the pair of
\* the last add or nothing after a remove, count counts the ids so stored,
\* a query returns the nearest of them.
C16_ReadsSeeReturnedWrites ==
    \A t \in Threads :
       LET r == threads[t]
       IN r.pc = "unlock" /\ r.call.op \in Readers =>
            LET c == r.call
                ids == StoredIn(r.snap)
                st == [id \in ids |-> [vector |-> r.snap[id].vector,
                                       metadata |-> r.snap[id].metadata]]
                hits == IF c.op = "queryf" THEN Matching(st, c.filter) ELSE ids
            IN /\ c.op = "get" /\ r.snap[c.id].st # "any" =>
                     r.res = IF c.id \in ids
                             THEN << <<st[c.id].vector, st[c.id].metadata>> >>
                             ELSE <<>>
               /\ c.op = "count" /\ (\A id \in Ids : r.snap[id].st # "any") =>
                     r.res = Cardinality(ids)
               /\ c.op \in {"query", "queryf"} /\ (\A id \in Ids : r.snap[id].st # "any") =>
                     /\ ResultIds(r.res) \subseteq hits
                     /\ Len(r.res) = Min(c.n, Cardinality(hits))

\* a get returns the pair an add left that returned before the get
\* started, while another thread has started a remove of the id
C16_Witness ==
    \E t, u \in Threads :
       /\ threads[t].pc = "unlock" /\ threads[t].call.op = "get"
       /\ threads[t].snap[threads[t].call.id].st = "stored"
       /\ threads[t].res # <<>>
       /\ threads[u].pc = "lock" /\ threads[u].call.op = "remove"
       /\ threads[u].call.id = threads[t].call.id

\* C21: load of a strict prefix of an artifact save wrote returns no
\* handle, and so never a handle with fewer records.  (Violated: read_binary
\* never looks at the stream, so a file that ends after the config is read
\* as a database with storage_count 0 and load returns true.)
C21_TruncatedFileRefused ==
    /\ last.op = "load"
    /\ disk.db # <<>>
    /\ DOMAIN disk.db[1] # {DbFields[i] : i \in 1..Len(DbFields)}
    => ~last.ret

\* C22: save returns false whenever opening the temporary file, writing
\* any part of the artifact or renaming it onto the target fails, and true
\* only if the complete artifact is then at the target.  (Violated: save
\* never looks at the stream after the open, so it renames a file whose
\* writes failed and returns true.)
C22_SaveReportsFailure ==
    last.op = "save" =>
       /\ last.ret = (/\ last.io.open_ok
                      /\ last.io.fields_written = Len(DbFields)
                      /\ last.io.rename_db_ok)
       /\ last.ret => disk.db = <<WriteDb(Impl)>>

\* C23: a save that completed (no call of it failed) has created or
\* replaced no file but the one at the target path, and no temporary or
\* side file of it is left.  (Violated: save writes the graph to
\* <path>.tmp_hnsw and renames it onto the side file <path>.hnsw.)
C23_SaveTouchesTargetOnly ==
    [][last'.op = "save" /\ last'.ret /\ last'.io = IoOk
          => /\ disk'.hnsw = disk.hnsw
             /\ disk'.tmp = <<>>
             /\ disk'.tmp_hnsw = <<>>]_vars

\* C24: the file a save left at the path begins with the magic "ORIONDB2"
\* and the format version 2, and load accepts a file with that magic.
\* (Violated: save writes "ORIONDB1" and version 1, and load refuses every
\* other magic.)
C24_MagicAndVersion ==
    last.op = "save" /\ last.ret =>
       /\ disk.db[1].magic = "ORIONDB2"
       /\ disk.db[1].format_version = 2
       /\ load([disk EXCEPT !.db = << [WriteDb(Impl) EXCEPT !.magic = "ORIONDB2",
                                                            !.format_version = 2] >>]).ret

\* C25: create(path, config) returning a handle and then load(path) give a
\* handle with count() = 0 and the dimension and capacity of config,
\* whatever the path held before.  (Violated through C22: create returns
\* a handle when the writes of its save failed, and load then reads the
\* short file.)
C25_CreateThenLoad ==
    [][last.op = "create_over" /\ last.ret /\ last'.op = "load"
          => /\ last'.ret
             /\ count(Impl') = 0
             /\ config' = last.config]_vars

\* query(query_vec, n, filter) for any filter, when the call returns: the
\* empty filter is handed to query(query_vec, n)
queryAnyFilter(e, query_vec, n, filter) ==
    IF DOMAIN filter = {} THEN query(e, query_vec, n)
    ELSE queryFiltered(e, query_vec, n, filter)

\* the filters with one clause less than filter
OneClauseLess(filter) ==
    {[k \in DOMAIN filter \ {c} |-> filter[k]] : c \in DOMAIN filter}

\* C26: a query with a filter returns, and returns no more results than
\* the same query with one clause less, the empty filter included.
\* (Violated: the call with the empty filter may never return (C12), and
\* for a vector of another length the empty filter gives nothing while a
\* clause gives results (C18).)
C26_FilterMonotone ==
    last.op \in {"queryf", "queryf_blocked"} =>
       /\ last.op = "queryf"
       /\ \A f \in OneClauseLess(last.filter) :
             \A r \in queryAnyFilter(Impl, last.q, last.n, f) :
                Len(last.res) <= Len(r)

\* the filter of the query that returned last (none for query(q, n))
FilterOf(l) == IF l.op = "queryf" THEN l.filter ELSE <<>>

\* C27: a query that returns gives at most n results, each id once, in
\* non-decreasing order of distance; and when fewer than n stored ids meet
\* the filter, a query with a vector of the database dimension returns
\* exactly those.  (Violated through C9: an add that returned false left
\* a record in storage that has no label in the graph, so the query
\* misses a stored id.)
C27_QueryResults ==
    last.op \in {"query", "queryf"} =>
       /\ Len(last.res) <= last.n
       /\ \A i, j \in 1..Len(last.res) :
             i < j => /\ last.res[i].id # last.res[j].id
                      /\ last.res[i].distance <= last.res[j].distance
       /\ (/\ Len(last.q) = config.vector_dim
           /\ Cardinality(Matching(storage, FilterOf(last))) < last.n)
          => ResultIds(last.res) = Matching(storage, FilterOf(last))

\* C28: an add that rebuilt the graph leaves the capacity at the larger of
\* twice the capacity it found and the number of records stored at the
\* rebuild plus 10; the new capacity is above the old one and above that
\* number of records.
C28_GrowthFormula ==
    [][last'.op = "add" /\ last'.why = "rebuilt" =>
          LET old == config.max_elements
              n == Cardinality(DOMAIN storage')
          IN /\ config'.max_elements = (IF 2 * old >= n + 10 THEN 2 * old ELSE n + 10)
             /\ hnsw_index'.max_elements = config'.max_elements
             /\ config'.max_elements > old
             /\ config'.max_elements > n]_vars

\* a rebuild where twice the old capacity was the larger of the two
C28_Witness ==
    /\ last.op = "add" /\ last.why = "rebuilt"
    /\ config.max_elements > Cardinality(DOMAIN storage) + 10

\* C29: add rebuilds the graph only when add_point failed on a full graph
\* (every slot taken and the label not in it); an add that finds a free
\* slot, or the label of its id in the graph (an id it replaces, or a
\* removed id it adds again), leaves the capacity as it was.
C29_RebuildOnlyWhenFull ==
    [][last'.op = "add" =>
          LET full == Cardinality(DOMAIN hnsw_index.points) >= hnsw_index.max_elements
              known == last'.id \in DOMAIN hnsw_index.points
          IN /\ last'.why \in {"rebuild", "retry", "rebuilt"} => full /\ ~known
             /\ ~full \/ known =>
                   /\ config' = config
                   /\ hnsw_index'.max_elements = hnsw_index.max_elements]_vars

\* a removed id added again to a graph whose slots were all taken
C29_Witness ==
    /\ last.op = "add" /\ last.ret /\ last.why = "ok"
    /\ ~last.stored /\ last.label
    /\ last.labels = hnsw_index.max_elements

\* the calls of rebuild_index and of addPoint on the path of add that ends
\* with the outcome why
RebuildCalls(why) == IF why \in {"rebuild", "retry", "rebuilt"} THEN 1 ELSE 0
AddPointCalls(why) ==
    IF why = "dimension" THEN 0
    ELSE IF why \in {"ok", "rebuild"} THEN 1
    ELSE 2

C31_RebuildMirrorsStore ==
    last.op = "add" /\ last.why = "rebuilt" =>
       /\ DOMAIN hnsw_index.points = DOMAIN storage
       /\ \A id \in DOMAIN storage :
             /\ hnsw_index.points[id].vec = storage[id].vector
             /\ ~hnsw_index.points[id].deleted

\* a rebuild by the add of the only stored id: the slots of the old graph
\* were taken by the labels of removed ids
C31_Witness ==
    /\ last.op = "add" /\ last.why = "rebuilt"
    /\ last.before = 0
    /\ DOMAIN storage = {last.id}

\* C32: when the rebuild inside an add fails, the graph and the configured
\* capacity are the ones the add found, and the add returns false.
C32_FailedRebuildKeepsGraph ==
    [][last'.op = "add" /\ last'.why = "rebuild" =>
          /\ hnsw_index' = hnsw_index
          /\ config' = config
          /\ ~last'.ret]_vars

\* a failed rebuild over a graph whose slots hold the label of a removed id
C32_Witness ==
    /\ last.op = "add" /\ last.why = "rebuild" /\ ~last.ret
    /\ \E a \in DOMAIN hnsw_index.points : hnsw_index.points[a].deleted

\* C33: when save returns false, the file at the path is the one from
\* before the call and load(path) reconstructs what it would have
\* reconstructed before the call.  (Violated: save has renamed the new
\* graph onto <path>.hnsw when the rename of the db file fails.)
C33_FailedSaveChangesNothing ==
    [][last'.op = "save" /\ ~last'.ret =>
          /\ disk'.db = disk.db
          /\ load(disk').ret = load(disk).ret
          /\ Observable(load(disk').impl) = Observable(load(disk).impl)]_vars

\* C34: after load returned a handle, every stored id has a label in the
\* graph that is not marked deleted and holds the stored vector, and no
\* query returns an id that is not stored.  (Violated: load ignores the
\* addPoint that throws, so with a graph file older than the db file a
\* stored id stays without a label.)
C34_LoadReconciles ==
    last.op = "load" /\ last.ret =>
       /\ \A id \in DOMAIN storage :
             /\ id \in DOMAIN hnsw_index.points
             /\ ~hnsw_index.points[id].deleted
             /\ hnsw_index.points[id].vec = storage[id].vector
       /\ \A res \in AllResults(Impl) : ResultIds(res) \subseteq DOMAIN storage

\* a thread makes the body of a call of query, get, count or save in this
\* step
ReadOnlyBody(t) ==
    /\ threads[t].pc \in {"lock", "relock"}
    /\ threads[t].call.op \in Readers \cup {"save"}
    /\ threads'[t].pc \in {"relock", "blocked", "unlock"}

\* C35: query (both overloads), get, count and save change nothing in the
\* store, the inverted index, the graph or the config: count, get and the
\* queries give after the call what they gave before it.
C35_ReadsChangeNothing ==
    [][(\E t \in Threads : ReadOnlyBody(t)) =>
          /\ storage' = storage
          /\ metadata_index' = metadata_index
          /\ hnsw_index' = hnsw_index
          /\ config' = config
          /\ Observable(Impl') = Observable(Impl)]_vars

\* a filtered query and a save have been made on a database that stores a
\* record
C35_Witness ==
    /\ DOMAIN storage # {}
    /\ \E t, u \in Threads :
          /\ threads[t].pc = "unlock" /\ threads[t].call.op = "save"
          /\ threads[u].pc = "lock" /\ threads[u].call.op = "queryf"

\* what the two files of a save hold: the records and the posting lists of
\* the db file, the graph of the .hnsw file
Artifact(d) ==
    [storage |-> ReadStorage(d.db[1]),
     metadata_index |-> ReadIndex(d.db[1].meta_idx),
     hnsw_index |-> loadIndex(d.hnsw[1], 0),
     config |-> read_config(d.db[1].config)]

\* C36: the artifact of a save made while other threads add and remove
\* holds no record without its postings, no posting without its record and
\* no graph that disagrees with the records.  (Violated through C9: save
\* writes the state at one instant, but an add that returned false has left
\* a record without postings and without a label.)
C36_SavedArtifactConsistent ==
    /\ IndexInvariant(Artifact(disk))
    /\ GraphInvariant(Artifact(disk))

\* C37: after create and any calls of add and remove, count() is at most
\* the configured capacity, and the capacity never decreases.  (Violated
\* through C9: an add whose rebuild failed has stored its record and left
\* the capacity as it was.)
C37_CountWithinCapacity ==
    /\ [](count(Impl) <= config.max_elements)
    /\ [][config'.max_elements >= config.max_elements]_vars

====
